---- MODULE Spec2Model ----
(***************************************************************************)
(* The boatwingio token contract (src/boatwingio.cpp, src/boatwingio.hpp): *)
(* a fungible-token ledger with staking and a time-gated refund of staked  *)
(* funds.  The five multi_index tables are the state; every action of the  *)
(* contract is one handler operator, translated statement by statement,    *)
(* and one action of the state machine.                                    *)
(*                                                                         *)
(* A failed eosio::check aborts the transaction: the host discards every   *)
(* table write the action made.  Each handler therefore returns a result   *)
(* [ok, db, wrote]: the tables to commit, and, for an abort, whether a     *)
(* table had already been written when the failing check ran.              *)
(***************************************************************************)
EXTENDS Integers, FiniteSets, Sequences, TLC

(***************************************************************************)
(* Bounds of the model.                                                    *)
(***************************************************************************)
\* the largest maximum_supply.amount create is called with
MaxSupply == 2
\* the block clock (current_time_point().sec_since_epoch()) runs 0..MaxTime
MaxTime == 1
\* uint64_t arithmetic is modulo 2^64 in the contract; the model scales the
\* word down: refund_delay and refund_time live in 0..Uint64Modulus-1
Uint64Modulus == 8
\* sec_since_epoch() is a uint32_t: whatever the time, the clock's value is
\* in 0..Uint32Modulus-1, scaled down as the uint64_t is and narrower than
\* it; the runs of the model advance the clock to MaxTime < Uint32Modulus
Uint32Modulus == 4

(***************************************************************************)
(* Names, symbols and assets.                                              *)
(***************************************************************************)
\* get_self(): the account the contract is deployed on
Self == "boatwingio"
\* the accounts that exist on the chain besides the contract's own
Accounts == {"alice", "bob"}
\* the names an action can be called with; "ghost" is no account
Names == Accounts \cup {"ghost"}
\* is_account(name)
is_account(n) == n \in Accounts \cup {Self}

\* the symbol codes an action can be called with: one token code, "X", and
\* a malformed code, "x".  Every table is scoped or keyed by the symbol code,
\* so the rows of one token never meet those of another; the model has one.
Codes == {"X", "x"}
\* symbol_code::is_valid: upper-case letters only
code_is_valid(c) == c = "X"
\* symbol::is_valid: a symbol is a code and a precision
symbol_is_valid(s) == code_is_valid(s.code)

\* an asset: an int64 amount and a symbol
asset(a, s) == [amount |-> a, symbol |-> s]
\* asset::is_valid: the amount within +-max_amount (2^62-1, far above every
\* amount of the model) and the symbol valid
asset_is_valid(q) == symbol_is_valid(q.symbol)

(***************************************************************************)
(* multi_index tables: a table is a function from the keys of its rows.    *)
(***************************************************************************)
\* find(key) != end()
has_row(t, k) == k \in DOMAIN t
\* emplace
emplace(t, k, row) == [x \in DOMAIN t \cup {k} |-> IF x = k THEN row ELSE t[x]]
\* modify
modify(t, k, row) == [t EXCEPT ![k] = row]
\* erase
erase(t, k) == [x \in DOMAIN t \ {k} |-> t[x]]
\* a table with no row
EmptyTable == [x \in {} |-> {}]

VARIABLES
  stat,          \* stats:        symbol code -> currency_stats
  accounts,      \* accounts:     <<owner, symbol code>> -> account
  stakestats,    \* stakestats:   <<symbol code, owner>> -> stake_stats
  totalstake,    \* staketotal:   symbol code -> stake_total
  unstakestats,  \* unstakestats: <<symbol code, owner>> -> unstake_stats
  now,           \* current_time_point().sec_since_epoch()
  last           \* the action committed last: its name, account and amount

tables == <<stat, accounts, stakestats, totalstake, unstakestats>>
vars == <<stat, accounts, stakestats, totalstake, unstakestats, now, last>>

\* the five tables as one value, as a handler sees them
DB == [stat |-> stat, accounts |-> accounts, stakestats |-> stakestats,
       totalstake |-> totalstake, unstakestats |-> unstakestats]

\* the action ran to its end: its writes are committed
Commit(d) == [ok |-> TRUE, db |-> d, wrote |-> FALSE]

\* a failed check that leaves the writes made before it in the tables
Abort_keeps_writes(d0, dcur) == [ok |-> FALSE, db |-> dcur, wrote |-> dcur # d0]

\* a check failed: the transaction aborts and the tables are those at entry
\* (d0); dcur is what the handler had written when the check ran
Abort(d0, dcur) == [ok |-> FALSE, db |-> d0, wrote |-> dcur # d0]

\* require_auth / has_auth: the action carries the authorization of auth
has_auth(auth, n) == auth = n

\* the longest memo issue, retire and transfer accept
MemoLimit == 256
\* the largest ratio settransfee accepts
MaxFeeRatio == 100


(***************************************************************************)
(* asset arithmetic.  operator+=, operator-= and the comparisons of        *)
(* eosio::asset check that both operands have the same symbol; the         *)
(* handlers state that check where the code applies the operator.          *)
(***************************************************************************)
same_symbol(a, b) == a.symbol = b.symbol
asset_add(a, b) == asset(a.amount + b.amount, a.symbol)
asset_sub(a, b) == asset(a.amount - b.amount, a.symbol)

(***************************************************************************)
(* token::sub_balance and token::add_balance.  d0: the tables when the     *)
(* action started; d: the tables as written so far.                        *)
(***************************************************************************)
\* sub_balance as eosio.token has it: the staked part is not held back
sub_balance_ignores_stake(d0, d, owner, value) ==
  LET k == <<owner, value.symbol.code>> IN
  IF ~has_row(d.accounts, k) THEN Abort(d0, d)
  ELSE LET from == d.accounts[k] IN
    IF ~(from.balance.amount >= value.amount) THEN Abort(d0, d)
    ELSE IF ~same_symbol(from.balance, value) THEN Abort(d0, d)
    ELSE Commit([d EXCEPT !.accounts =
                   modify(@, k, [from EXCEPT !.balance = asset_sub(@, value)])])

sub_balance(d0, d, owner, value) ==
  LET k == <<owner, value.symbol.code>> IN
  IF ~has_row(d.accounts, k) THEN Abort(d0, d)
  ELSE LET from == d.accounts[k] IN
    IF ~(from.balance.amount >= value.amount + from.staked_balance.amount)
      THEN Abort(d0, d)
    ELSE IF ~same_symbol(from.balance, value) THEN Abort(d0, d)
    ELSE Commit([d EXCEPT !.accounts =
                   modify(@, k, [from EXCEPT !.balance = asset_sub(@, value)])])

\* add_balance that overwrites the balance of an existing row
add_balance_overwrite(d0, d, owner, value, ram_payer) ==
  LET k == <<owner, value.symbol.code>> IN
  IF ~has_row(d.accounts, k)
    THEN Commit([d EXCEPT !.accounts =
                   emplace(@, k, [balance |-> value,
                                  staked_balance |-> asset(0, value.symbol)])])
  ELSE Commit([d EXCEPT !.accounts =
                 modify(@, k, [d.accounts[k] EXCEPT !.balance = value])])

add_balance(d0, d, owner, value, ram_payer) ==
  LET k == <<owner, value.symbol.code>> IN
  IF ~has_row(d.accounts, k)
    THEN Commit([d EXCEPT !.accounts =
                   emplace(@, k, [balance |-> value,
                                  staked_balance |-> asset(0, value.symbol)])])
  ELSE LET to == d.accounts[k] IN
    IF ~same_symbol(to.balance, value) THEN Abort(d0, d)
    ELSE Commit([d EXCEPT !.accounts =
                   modify(@, k, [to EXCEPT !.balance = asset_add(@, value)])])

(***************************************************************************)
(* The actions of the contract, as functions of the tables d at entry.     *)
(***************************************************************************)
create(d, auth, issuer, maximum_supply) ==
  LET sym == maximum_supply.symbol
      d1 == [d EXCEPT !.stat = emplace(@, sym.code,
               [supply |-> asset(0, sym), max_supply |-> maximum_supply,
                issuer |-> issuer, refund_delay |-> 0, fee_ratio |-> 0,
                fee_receiver |-> issuer])]
      d2 == [d1 EXCEPT !.totalstake = emplace(@, sym.code,
               [staked_balance_total |-> asset(0, sym)])]
  IN
  IF ~has_auth(auth, Self) THEN Abort(d, d)
  ELSE IF ~is_account(issuer) THEN Abort(d, d)
  ELSE IF ~symbol_is_valid(sym) THEN Abort(d, d)
  ELSE IF ~asset_is_valid(maximum_supply) THEN Abort(d, d)
  ELSE IF ~(maximum_supply.amount > 0) THEN Abort(d, d)
  ELSE IF has_row(d.stat, sym.code) THEN Abort(d, d)
  ELSE IF has_row(d1.totalstake, sym.code) THEN Abort(d, d1)
  ELSE Commit(d2)

\* lines 40-52 with the pending requests rescheduled to the new delay
setdelay_reschedules(d, auth, symbol, delaytime) ==
  IF ~has_row(d.stat, symbol.code) THEN Abort(d, d)
  ELSE LET st == d.stat[symbol.code] IN
    IF ~has_auth(auth, st.issuer) THEN Abort(d, d)
    ELSE IF ~(st.supply.symbol.code = symbol.code) THEN Abort(d, d)
    ELSE Commit([d EXCEPT
           !.stat = modify(@, symbol.code, [st EXCEPT !.refund_delay = delaytime]),
           !.unstakestats =
              [k \in DOMAIN d.unstakestats |->
                 [d.unstakestats[k] EXCEPT !.refund_time =
                    (d.unstakestats[k].request_time + delaytime) % Uint64Modulus]]])

setdelay(d, auth, symbol, delaytime) ==
  IF ~has_row(d.stat, symbol.code) THEN Abort(d, d)
  ELSE LET st == d.stat[symbol.code] IN
    IF ~has_auth(auth, st.issuer) THEN Abort(d, d)
    ELSE IF ~(st.supply.symbol.code = symbol.code) THEN Abort(d, d)
    ELSE Commit([d EXCEPT !.stat =
                   modify(@, symbol.code, [st EXCEPT !.refund_delay = delaytime])])

settransfee(d, auth, symbol, ratio, receiver) ==
  IF ~is_account(receiver) THEN Abort(d, d)
  ELSE IF ~has_row(d.stat, symbol.code) THEN Abort(d, d)
  ELSE LET st == d.stat[symbol.code] IN
    IF ~has_auth(auth, st.issuer) THEN Abort(d, d)
    ELSE IF ~(st.supply.symbol.code = symbol.code) THEN Abort(d, d)
    ELSE IF ~(ratio >= 0 /\ ratio <= MaxFeeRatio) THEN Abort(d, d)
    ELSE Commit([d EXCEPT !.stat =
                   modify(@, symbol.code, [st EXCEPT !.fee_ratio = ratio,
                                                     !.fee_receiver = receiver])])

\* line 90 comparing with max_supply alone
issue_allowed_within_max(st, quantity) == quantity.amount <= st.max_supply.amount

\* line 90: the quantity fits in what is left of max_supply
issue_allowed(st, quantity) ==
  quantity.amount <= st.max_supply.amount - st.supply.amount

issue(d, auth, to, quantity, memo) ==
  LET sym == quantity.symbol IN
  IF ~is_account(to) THEN Abort(d, d)
  ELSE IF ~symbol_is_valid(sym) THEN Abort(d, d)
  ELSE IF ~(memo <= MemoLimit) THEN Abort(d, d)
  ELSE IF ~has_row(d.stat, sym.code) THEN Abort(d, d)
  ELSE LET st == d.stat[sym.code]
           d1 == [d EXCEPT !.stat =
                    modify(@, sym.code, [st EXCEPT !.supply = asset_add(@, quantity)])]
       IN
    IF ~has_auth(auth, st.issuer) THEN Abort(d, d)
    ELSE IF ~asset_is_valid(quantity) THEN Abort(d, d)
    ELSE IF ~(quantity.amount > 0) THEN Abort(d, d)
    ELSE IF ~(quantity.symbol = st.supply.symbol) THEN Abort(d, d)
    ELSE IF ~issue_allowed(st, quantity) THEN Abort(d, d)
    ELSE add_balance(d, d1, st.issuer, quantity, st.issuer)

retire(d, auth, quantity, memo) ==
  LET sym == quantity.symbol IN
  IF ~symbol_is_valid(sym) THEN Abort(d, d)
  ELSE IF ~(memo <= MemoLimit) THEN Abort(d, d)
  ELSE IF ~has_row(d.stat, sym.code) THEN Abort(d, d)
  ELSE LET st == d.stat[sym.code]
           d1 == [d EXCEPT !.stat =
                    modify(@, sym.code, [st EXCEPT !.supply = asset_sub(@, quantity)])]
       IN
    IF ~has_auth(auth, st.issuer) THEN Abort(d, d)
    ELSE IF ~asset_is_valid(quantity) THEN Abort(d, d)
    ELSE IF ~(quantity.amount > 0) THEN Abort(d, d)
    ELSE IF ~(quantity.symbol = st.supply.symbol) THEN Abort(d, d)
    ELSE sub_balance(d, d1, st.issuer, quantity)

transfer(d, auth, from, to, quantity, memo) ==
  LET sym == quantity.symbol.code IN
  IF ~(from # to) THEN Abort(d, d)
  ELSE IF ~has_auth(auth, from) THEN Abort(d, d)
  ELSE IF ~is_account(to) THEN Abort(d, d)
  ELSE IF ~has_row(d.stat, sym) THEN Abort(d, d)
  ELSE LET st == d.stat[sym]
           payer == IF has_auth(auth, to) THEN to ELSE from
           r1 == sub_balance(d, d, from, quantity)
       IN
    IF ~asset_is_valid(quantity) THEN Abort(d, d)
    ELSE IF ~(quantity.amount > 0) THEN Abort(d, d)
    ELSE IF ~(quantity.symbol = st.supply.symbol) THEN Abort(d, d)
    ELSE IF ~(memo <= MemoLimit) THEN Abort(d, d)
    ELSE IF ~r1.ok THEN r1
    ELSE add_balance(d, r1.db, to, quantity, payer)

\* line 160 comparing the quantity with the whole balance
stake_allowed_ignores_stake(from, quantity) ==
  from.balance.amount >= quantity.amount

\* line 160 with > for >=
stake_allowed_strict(from, quantity) ==
  from.balance.amount > from.staked_balance.amount + quantity.amount

\* line 160: the quantity fits in the balance that is not staked yet
stake_allowed(from, quantity) ==
  from.balance.amount >= from.staked_balance.amount + quantity.amount

\* lines 166-178 assigning the quantity to an existing row
stake_upsert_overwrite(d, ks, owner, quantity) ==
  IF ~has_row(d.stakestats, ks)
    THEN [d EXCEPT !.stakestats =
            emplace(@, ks, [owner |-> owner, staked_balance |-> quantity])]
    ELSE [d EXCEPT !.stakestats =
            modify(@, ks, [@[ks] EXCEPT !.staked_balance = quantity])]

\* lines 166-178: the owner's stake_stats row is created with the quantity,
\* or the quantity is added to it
stake_upsert(d, ks, owner, quantity) ==
  IF ~has_row(d.stakestats, ks)
    THEN [d EXCEPT !.stakestats =
            emplace(@, ks, [owner |-> owner, staked_balance |-> quantity])]
    ELSE [d EXCEPT !.stakestats =
            modify(@, ks, [@[ks] EXCEPT !.staked_balance = asset_add(@, quantity)])]

\* lines 185-187 storing the quantity as the total
stake_total_overwrite(d, sym_code_raw, quantity) ==
  [d EXCEPT !.totalstake =
     modify(@, sym_code_raw,
            [@[sym_code_raw] EXCEPT !.staked_balance_total = quantity])]

\* lines 185-187: the symbol's total is incremented
stake_total(d, sym_code_raw, quantity) ==
  [d EXCEPT !.totalstake =
     modify(@, sym_code_raw,
            [@[sym_code_raw] EXCEPT !.staked_balance_total = asset_add(@, quantity)])]

stake(d, auth, owner, quantity) ==
  LET sym_code_raw == quantity.symbol.code
      ka == <<owner, sym_code_raw>>
      ks == <<sym_code_raw, owner>>
  IN
  IF ~has_auth(auth, owner) THEN Abort(d, d)
  ELSE IF ~asset_is_valid(quantity) THEN Abort(d, d)
  ELSE IF ~(quantity.amount > 0) THEN Abort(d, d)
  ELSE IF ~has_row(d.accounts, ka) THEN Abort(d, d)
  ELSE LET from == d.accounts[ka]
           d1 == [d EXCEPT !.accounts =
                    modify(@, ka, [from EXCEPT !.staked_balance = asset_add(@, quantity)])]
           d2 == stake_upsert(d1, ks, owner, quantity)
       IN
    IF ~same_symbol(from.staked_balance, quantity) THEN Abort(d, d)
    ELSE IF ~same_symbol(from.balance, asset_add(from.staked_balance, quantity))
      THEN Abort(d, d)
    ELSE IF ~stake_allowed(from, quantity) THEN Abort(d, d)
    ELSE IF has_row(d1.stakestats, ks)
            /\ ~same_symbol(d1.stakestats[ks].staked_balance, quantity)
      THEN Abort(d, d1)
    ELSE IF ~has_row(d2.totalstake, sym_code_raw) THEN Abort(d, d2)
    ELSE LET tot == d2.totalstake[sym_code_raw] IN
      IF ~same_symbol(tot.staked_balance_total, quantity) THEN Abort(d, d2)
      ELSE Commit(stake_total(d2, sym_code_raw, quantity))

\* lines 206-209 without the look-up
request_pending_unchecked(d, ku) == FALSE

\* lines 206-209: the owner has an unstake_stats row already
request_pending(d, ku) == has_row(d.unstakestats, ku)

\* lines 211-217 with the stake released at the request
unstake_request_releases(d, owner, quantity, current_time, st) ==
  LET ka == <<owner, quantity.symbol.code>>
      ku == <<quantity.symbol.code, owner>>
  IN [d EXCEPT
        !.accounts = modify(@, ka,
            [@[ka] EXCEPT !.staked_balance = asset_sub(@, quantity)]),
        !.unstakestats = emplace(@, ku,
            [owner |-> owner,
             request_time |-> current_time,
             refund_time |-> (current_time + st.refund_delay) % Uint64Modulus,
             amount |-> quantity])]

\* lines 211-217: the request row is the only write of unstake
unstake_request(d, owner, quantity, current_time, st) ==
  LET ku == <<quantity.symbol.code, owner>>
  IN [d EXCEPT !.unstakestats = emplace(@, ku,
        [owner |-> owner,
         request_time |-> current_time,
         refund_time |-> (current_time + st.refund_delay) % Uint64Modulus,
         amount |-> quantity])]

\* line 203 left out
unstake_allowed_unchecked(from, quantity) == TRUE

\* line 203: the staked balance covers the requested quantity
unstake_allowed(from, quantity) == from.staked_balance.amount >= quantity.amount

unstake(d, auth, owner, quantity, current_time) ==
  LET sym_code_raw == quantity.symbol.code
      ka == <<owner, sym_code_raw>>
      ku == <<sym_code_raw, owner>>
  IN
  IF ~has_auth(auth, owner) THEN Abort(d, d)
  ELSE IF ~asset_is_valid(quantity) THEN Abort(d, d)
  ELSE IF ~(quantity.amount > 0) THEN Abort(d, d)
  ELSE IF ~has_row(d.stat, sym_code_raw) THEN Abort(d, d)
  ELSE IF ~has_row(d.accounts, ka) THEN Abort(d, d)
  ELSE LET st == d.stat[sym_code_raw]
           from == d.accounts[ka]
       IN
    IF ~same_symbol(from.staked_balance, quantity) THEN Abort(d, d)
    ELSE IF ~unstake_allowed(from, quantity) THEN Abort(d, d)
    ELSE IF request_pending(d, ku) THEN Abort(d, d)
    ELSE Commit(unstake_request(d, owner, quantity, current_time, st))

\* line 232 comparing request_time
refund_available_at_request(itr, current_time) == itr.request_time <= current_time

\* line 232: the request's refund_time has come
refund_available(itr, current_time) == itr.refund_time <= current_time

\* lines 258-265 left out
refund_total_skipped(d, sym_code_raw, quantity) == d

\* lines 258-265: the symbol's total is decremented
refund_total(d, sym_code_raw, quantity) ==
  [d EXCEPT !.totalstake =
     modify(@, sym_code_raw,
            [@[sym_code_raw] EXCEPT !.staked_balance_total = asset_sub(@, quantity)])]

inline_refund(d, owner, rampayer, symbol, current_time) ==
  LET sym_code_raw == symbol
      ku == <<sym_code_raw, owner>>
      ka == <<owner, sym_code_raw>>
  IN
  IF ~has_row(d.unstakestats, ku) THEN Abort(d, d)
  ELSE LET itr == d.unstakestats[ku]
           quantity == itr.amount
       IN
    IF ~(itr.owner = owner) THEN Abort(d, d)
    ELSE IF ~refund_available(itr, current_time) THEN Abort(d, d)
    ELSE IF ~has_row(d.accounts, ka) THEN Abort(d, d)
    ELSE LET from_acnt == d.accounts[ka]
             d1 == [d EXCEPT !.accounts =
                      modify(@, ka, [from_acnt EXCEPT !.staked_balance = asset_sub(@, quantity)])]
         IN
      IF ~same_symbol(from_acnt.balance, quantity) THEN Abort(d, d)
      ELSE IF ~(from_acnt.balance.amount >= quantity.amount) THEN Abort(d, d)
      ELSE IF ~same_symbol(from_acnt.staked_balance, quantity) THEN Abort(d, d)
      ELSE IF ~has_row(d1.stakestats, ku) THEN Abort(d, d1)
      ELSE LET userstake == d1.stakestats[ku]
               d2 == [d1 EXCEPT !.stakestats =
                        modify(@, ku, [owner |-> owner,
                                       staked_balance |-> asset_sub(userstake.staked_balance, quantity)])]
           IN
        IF ~same_symbol(userstake.staked_balance, quantity) THEN Abort(d, d1)
        ELSE IF ~has_row(d2.totalstake, sym_code_raw) THEN Abort(d, d2)
        ELSE LET tot == d2.totalstake[sym_code_raw]
                 d3 == refund_total(d2, sym_code_raw, quantity)
             IN
          IF ~same_symbol(tot.staked_balance_total, quantity) THEN Abort(d, d2)
          ELSE Commit([d3 EXCEPT !.unstakestats = erase(@, ku)])

refund(d, auth, owner, symbol, current_time) ==
  IF ~has_auth(auth, owner) THEN Abort(d, d)
  ELSE inline_refund(d, owner, owner, symbol, current_time)

\* lines 270-283 without the check of line 279
cancelrefund_unchecked(d, auth, owner, symbol) ==
  LET ku == <<symbol, owner>> IN
  IF ~has_auth(auth, owner) THEN Abort(d, d)
  ELSE Commit([d EXCEPT !.unstakestats = erase(@, ku)])

cancelrefund(d, auth, owner, symbol) ==
  LET ku == <<symbol, owner>> IN
  IF ~has_auth(auth, owner) THEN Abort(d, d)
  ELSE IF ~has_row(d.unstakestats, ku) THEN Abort(d, d)
  ELSE Commit([d EXCEPT !.unstakestats = erase(@, ku)])

\* lines 324-331 without the look-up of line 325
open_account_resets(d, ka, symbol) ==
  [d EXCEPT !.accounts =
     emplace(@, ka, [balance |-> asset(0, symbol),
                     staked_balance |-> asset(0, symbol)])]

\* lines 324-331: the account row is created, with zero amounts, if absent
open_account(d, ka, symbol) ==
  IF ~has_row(d.accounts, ka)
    THEN [d EXCEPT !.accounts =
            emplace(@, ka, [balance |-> asset(0, symbol),
                            staked_balance |-> asset(0, symbol)])]
    ELSE d

open(d, auth, owner, symbol, ram_payer) ==
  LET sym_code_raw == symbol.code
      ka == <<owner, sym_code_raw>>
      ks == <<sym_code_raw, owner>>
  IN
  IF ~has_auth(auth, ram_payer) THEN Abort(d, d)
  ELSE IF ~is_account(owner) THEN Abort(d, d)
  ELSE IF ~has_row(d.stat, sym_code_raw) THEN Abort(d, d)
  ELSE IF ~(d.stat[sym_code_raw].supply.symbol = symbol) THEN Abort(d, d)
  ELSE LET d1 == open_account(d, ka, symbol)
           d2 == IF ~has_row(d1.stakestats, ks)
                   THEN [d1 EXCEPT !.stakestats =
                           emplace(@, ks, [owner |-> owner,
                                           staked_balance |-> asset(0, symbol)])]
                   ELSE d1
       IN Commit(d2)

\* lines 344-366 without the erase of line 364
close_keeps_stake(d, auth, owner, symbol, dangling) ==
  LET sym_code_raw == symbol.code
      ka == <<owner, sym_code_raw>>
      ks == <<sym_code_raw, owner>>
  IN
  IF ~has_auth(auth, owner) THEN Abort(d, d)
  ELSE IF ~has_row(d.accounts, ka) THEN Abort(d, d)
  ELSE LET it == d.accounts[ka]
           d1 == [d EXCEPT !.accounts = erase(@, ka)]
       IN
    IF ~(it.balance.amount = 0 /\ it.staked_balance.amount = 0) THEN Abort(d, d)
    ELSE IF ~has_row(d1.stakestats, ks) THEN Commit(d1)
    ELSE IF ~(dangling = 0) THEN Abort(d, d1)
    ELSE Commit(d1)

\* After acnts.erase(it) the iterator it still points at the row's freed
\* cache entry; line 362 reads it->staked_balance.amount through it.  The
\* value read is not defined: dangling is that value.
close(d, auth, owner, symbol, dangling) ==
  LET sym_code_raw == symbol.code
      ka == <<owner, sym_code_raw>>
      ks == <<sym_code_raw, owner>>
  IN
  IF ~has_auth(auth, owner) THEN Abort(d, d)
  ELSE IF ~has_row(d.accounts, ka) THEN Abort(d, d)
  ELSE LET it == d.accounts[ka]
           d1 == [d EXCEPT !.accounts = erase(@, ka)]
       IN
    IF ~(it.balance.amount = 0 /\ it.staked_balance.amount = 0) THEN Abort(d, d)
    ELSE IF ~has_row(d1.stakestats, ks) THEN Commit(d1)
    ELSE IF ~(dangling = 0) THEN Abort(d, d1)
    ELSE Commit([d1 EXCEPT !.stakestats = erase(@, ks)])


(***************************************************************************)
(* The inputs the actions are called with.  Each action is called with     *)
(* every well-formed input over the model's accounts and amounts (whether  *)
(* it then succeeds is decided by the tables), and with ill-formed inputs: *)
(* a well-formed input with one argument replaced by a bad one.            *)
(***************************************************************************)
\* the symbol the token is created with, a second precision of its code,
\* and a malformed symbol
TokenSymbol == [code |-> "X", precision |-> 4]
OtherPrecision == [code |-> "X", precision |-> 0]
BadSymbol == [code |-> "x", precision |-> 4]
\* the amounts of a well-formed quantity, and 0 and a negative amount
Amounts == 1 .. MaxSupply + 1
BadAmounts == {0, -1}
\* memo.size()
ShortMemo == Len("")
LongMemo == MemoLimit + 1
\* setdelay's delaytime: any uint64; the largest wraps now + delaytime
Delays == {1, Uint64Modulus - 1}
\* settransfee's ratio
GoodRatio == MaxFeeRatio
BadRatio == MaxFeeRatio + 1

\* a well-formed input n and the ill-formed inputs made from it: alts is a
\* set of <<field, value>> replacements
WithFaults(n, alts) == {n} \cup {[n EXCEPT ![a[1]] = a[2]] : a \in alts}

CreateInputs ==
  WithFaults([auth |-> Self, issuer |-> "alice", ms |-> asset(MaxSupply, TokenSymbol)],
             {<<"auth", "alice">>, <<"issuer", "ghost">>,
              <<"ms", asset(0, TokenSymbol)>>, <<"ms", asset(MaxSupply, BadSymbol)>>})

SetDelayInputs ==
  [auth : Accounts, symbol : {TokenSymbol}, delaytime : Delays]
  \cup WithFaults([auth |-> "alice", symbol |-> OtherPrecision, delaytime |-> 0],
                  {<<"symbol", BadSymbol>>, <<"auth", Self>>})

SetTransFeeInputs ==
  [auth : Accounts, symbol : {TokenSymbol}, ratio : {GoodRatio}, receiver : {"bob"}]
  \cup WithFaults([auth |-> "alice", symbol |-> OtherPrecision, ratio |-> 0,
                   receiver |-> "alice"],
                  {<<"symbol", BadSymbol>>, <<"ratio", BadRatio>>,
                   <<"receiver", "ghost">>, <<"auth", Self>>})

\* a well-formed quantity of amount 1 with one thing wrong
BadQuantities ==
  {asset(a, TokenSymbol) : a \in BadAmounts}
  \cup {asset(1, OtherPrecision), asset(1, BadSymbol)}

IssueInputs ==
  [auth : Accounts, to : Accounts, quantity : {asset(a, TokenSymbol) : a \in Amounts},
   memo : {ShortMemo}]
  \cup WithFaults([auth |-> "alice", to |-> "alice", quantity |-> asset(1, TokenSymbol),
                   memo |-> ShortMemo],
                  {<<"quantity", q>> : q \in BadQuantities}
                  \cup {<<"to", "ghost">>, <<"memo", LongMemo>>, <<"auth", Self>>})

RetireInputs ==
  [auth : Accounts, quantity : {asset(a, TokenSymbol) : a \in Amounts}, memo : {ShortMemo}]
  \cup WithFaults([auth |-> "alice", quantity |-> asset(1, TokenSymbol), memo |-> ShortMemo],
                  {<<"quantity", q>> : q \in BadQuantities}
                  \cup {<<"memo", LongMemo>>, <<"auth", Self>>})

TransferInputs ==
  {[auth |-> f, from |-> f, to |-> t, quantity |-> asset(a, TokenSymbol), memo |-> ShortMemo] :
     f \in Accounts, t \in Accounts, a \in Amounts}
  \cup WithFaults([auth |-> "alice", from |-> "alice", to |-> "bob",
                   quantity |-> asset(1, TokenSymbol), memo |-> ShortMemo],
                  {<<"quantity", q>> : q \in BadQuantities}
                  \cup {<<"to", "ghost">>, <<"memo", LongMemo>>, <<"auth", "bob">>})

\* stake and unstake
StakeInputs ==
  {[auth |-> o, owner |-> o, quantity |-> asset(a, TokenSymbol)] :
     o \in Accounts, a \in Amounts}
  \cup WithFaults([auth |-> "alice", owner |-> "alice", quantity |-> asset(1, TokenSymbol)],
                  {<<"quantity", q>> : q \in BadQuantities} \cup {<<"auth", "bob">>})

\* refund and cancelrefund
RefundInputs ==
  {[auth |-> o, owner |-> o, symbol |-> c] : o \in Accounts, c \in Codes}
  \cup WithFaults([auth |-> "alice", owner |-> "alice", symbol |-> "X"],
                  {<<"symbol", "x">>, <<"auth", "bob">>})

OpenInputs ==
  [auth : Accounts, owner : Accounts, symbol : {TokenSymbol}, ram_payer : Accounts]
  \cup WithFaults([auth |-> "alice", owner |-> "alice", symbol |-> TokenSymbol,
                   ram_payer |-> "alice"],
                  {<<"symbol", OtherPrecision>>, <<"symbol", BadSymbol>>,
                   <<"owner", "ghost">>})

\* dangling: what line 362 reads through the erased iterator
CloseInputs ==
  {[auth |-> o, owner |-> o, symbol |-> sym, dangling |-> g] :
     o \in Accounts, sym \in {TokenSymbol, OtherPrecision}, g \in {0, 1}}
  \cup WithFaults([auth |-> "alice", owner |-> "alice", symbol |-> TokenSymbol,
                   dangling |-> 0],
                  {<<"symbol", BadSymbol>>, <<"auth", "bob">>})

(***************************************************************************)
(* The state machine.                                                      *)
(***************************************************************************)
Init ==
  /\ stat = EmptyTable
  /\ accounts = EmptyTable
  /\ stakestats = EmptyTable
  /\ totalstake = EmptyTable
  /\ unstakestats = EmptyTable
  /\ now = 0
  /\ last = [op |-> "deploy", who |-> Self, amount |-> 0]

\* The tables at deployment, in a run that keeps no record of the last
\* action: last stays as it is here.  The tables and the clock of such a
\* run are those of a run from Init.
InitCalls ==
  /\ stat = EmptyTable
  /\ accounts = EmptyTable
  /\ stakestats = EmptyTable
  /\ totalstake = EmptyTable
  /\ unstakestats = EmptyTable
  /\ now = 0
  /\ last = [op |-> "unrecorded", who |-> Self, amount |-> 0]

\* The host runs action op, called for account who with amount, with result
\* r.  A committed action's writes reach the tables.  A failed check aborts
\* the transaction, which leaves no trace in the state: the step is taken
\* only when every check of the handler passes.  last records the action,
\* unless the run keeps no record (InitCalls).
Apply(op, who, amount, r) ==
  /\ r.ok
  /\ stat' = r.db.stat
  /\ accounts' = r.db.accounts
  /\ stakestats' = r.db.stakestats
  /\ totalstake' = r.db.totalstake
  /\ unstakestats' = r.db.unstakestats
  /\ now' = now
  /\ last' = IF last.op = "unrecorded" THEN last
             ELSE [op |-> op, who |-> who, amount |-> amount]

Create ==
  \E i \in CreateInputs : Apply("create", i.issuer, i.ms.amount, create(DB, i.auth, i.issuer, i.ms))

SetDelay ==
  \E i \in SetDelayInputs : Apply("setdelay", i.auth, i.delaytime, setdelay(DB, i.auth, i.symbol, i.delaytime))

SetTransFee ==
  \E i \in SetTransFeeInputs :
    Apply("settransfee", i.receiver, i.ratio, settransfee(DB, i.auth, i.symbol, i.ratio, i.receiver))

Issue ==
  \E i \in IssueInputs : Apply("issue", i.to, i.quantity.amount, issue(DB, i.auth, i.to, i.quantity, i.memo))

Retire ==
  \E i \in RetireInputs : Apply("retire", i.auth, i.quantity.amount, retire(DB, i.auth, i.quantity, i.memo))

Transfer ==
  \E i \in TransferInputs :
    Apply("transfer", i.from, i.quantity.amount, transfer(DB, i.auth, i.from, i.to, i.quantity, i.memo))

Stake ==
  \E i \in StakeInputs : Apply("stake", i.owner, i.quantity.amount, stake(DB, i.auth, i.owner, i.quantity))

Unstake ==
  \E i \in StakeInputs : Apply("unstake", i.owner, i.quantity.amount, unstake(DB, i.auth, i.owner, i.quantity, now))

Refund ==
  \E i \in RefundInputs :
    Apply("refund", i.owner, unstakestats[<<i.symbol, i.owner>>].amount.amount,
          refund(DB, i.auth, i.owner, i.symbol, now))

CancelRefund ==
  \E i \in RefundInputs :
    Apply("cancelrefund", i.owner, unstakestats[<<i.symbol, i.owner>>].amount.amount,
          cancelrefund(DB, i.auth, i.owner, i.symbol))

Open ==
  \E i \in OpenInputs : Apply("open", i.owner, 0, open(DB, i.auth, i.owner, i.symbol, i.ram_payer))

Close ==
  \E i \in CloseInputs : Apply("close", i.owner, 0, close(DB, i.auth, i.owner, i.symbol, i.dangling))

\* a block later
Tick ==
  /\ now < MaxTime
  /\ now' = now + 1
  /\ UNCHANGED <<tables, last>>

Next ==
  \/ Create
  \/ SetDelay
  \/ SetTransFee
  \/ Issue
  \/ Retire
  \/ Transfer
  \/ Stake
  \/ Unstake
  \/ Refund
  \/ CancelRefund
  \/ Open
  \/ Close
  \/ Tick

Spec == Init /\ [][Next]_vars

\* The same actions from the same tables, with no record of the last action.
\* Its states are the reachable values of the tables and the clock, each
\* once: the properties of what a call does on the tables as they are, which
\* do not read last, are stated of these.
SpecCalls == InitCalls /\ [][Next]_vars


(***************************************************************************)
(* Sums over the rows of a table.                                          *)
(***************************************************************************)
RECURSIVE SumOver(_, _)
\* the sum of f[k] over the keys k of the set K
SumOver(f, K) ==
  IF K = {} THEN 0
  ELSE LET k == CHOOSE x \in K : TRUE IN f[k] + SumOver(f, K \ {k})

\* the owners that have an account row, a stake row, for symbol code c
AccountOwners(c) == {o \in Names : has_row(accounts, <<o, c>>)}
StakeOwners(c) == {o \in Names : has_row(stakestats, <<c, o>>)}
\* sum(AccountRecord.balance), sum(AccountRecord.staked_balance) and
\* sum(StakeRecord.staked_balance) of symbol code c
SumBalance(c) ==
  SumOver([o \in AccountOwners(c) |-> accounts[<<o, c>>].balance.amount], AccountOwners(c))
SumAccountStaked(c) ==
  SumOver([o \in AccountOwners(c) |-> accounts[<<o, c>>].staked_balance.amount],
          AccountOwners(c))
SumStakeRecords(c) ==
  SumOver([o \in StakeOwners(c) |-> stakestats[<<c, o>>].staked_balance.amount],
          StakeOwners(c))

(***************************************************************************)
(* C1  Conservation: in every reachable state, for every registered        *)
(* symbol, the sum of the balances of all owners equals the supply; and    *)
(* there is no account row of a symbol that is not registered.             *)
(***************************************************************************)
C1_Conservation ==
  /\ \A c \in DOMAIN stat : SumBalance(c) = stat[c].supply.amount
  /\ \A k \in DOMAIN accounts : has_row(stat, k[2])

\* a transfer has just moved tokens: two owners hold a positive balance
C1_Witness ==
  /\ last.op = "transfer"
  /\ \A o \in Accounts :
       has_row(accounts, <<o, "X">>) /\ accounts[<<o, "X">>].balance.amount > 0

(***************************************************************************)
(* C2  Staking bound: in every reachable state every account row has       *)
(* 0 <= staked_balance.amount <= balance.amount.                           *)
(***************************************************************************)
C2_StakingBound ==
  \A k \in DOMAIN accounts :
    /\ 0 <= accounts[k].staked_balance.amount
    /\ accounts[k].staked_balance.amount <= accounts[k].balance.amount

\* a debit (transfer or retire) has just brought an owner's balance down to
\* exactly the staked amount
C2_Witness ==
  /\ last.op \in {"transfer", "retire"}
  /\ has_row(accounts, <<last.who, "X">>)
  /\ accounts[<<last.who, "X">>].staked_balance.amount > 0
  /\ accounts[<<last.who, "X">>].staked_balance.amount
       = accounts[<<last.who, "X">>].balance.amount

(***************************************************************************)
(* C3  Aggregate consistency: in every reachable state, for every          *)
(* registered symbol, the stake_total row exists and its                   *)
(* staked_balance_total equals the sum of the stake_stats rows of the      *)
(* symbol and the sum of the staked_balance of its account rows.           *)
(***************************************************************************)
C3_AggregateConsistency ==
  \A c \in DOMAIN stat :
    /\ has_row(totalstake, c)
    /\ totalstake[c].staked_balance_total.amount = SumStakeRecords(c)
    /\ totalstake[c].staked_balance_total.amount = SumAccountStaked(c)

\* a refund has just released part of what is staked
C3_Witness ==
  /\ last.op = "refund"
  /\ has_row(totalstake, "X")
  /\ totalstake["X"].staked_balance_total.amount > 0

(***************************************************************************)
(* C4  Stake mirror: in every reachable state every stake_stats row has an *)
(* account row of the same owner and symbol with the same staked_balance,  *)
(* and every account row without a stake_stats row has staked_balance 0.   *)
(***************************************************************************)
C4_StakeMirror ==
  /\ \A k \in DOMAIN stakestats :
       /\ has_row(accounts, <<k[2], k[1]>>)
       /\ accounts[<<k[2], k[1]>>].staked_balance = stakestats[k].staked_balance
       /\ stakestats[k].owner = k[2]
  /\ \A k \in DOMAIN accounts :
       ~has_row(stakestats, <<k[2], k[1]>>) => accounts[k].staked_balance.amount = 0

\* open has just run for an owner who holds a balance and has a zero
\* stake_stats row, while another owner has a stake
C4_Witness ==
  /\ last.op = "open"
  /\ has_row(accounts, <<last.who, "X">>)
  /\ accounts[<<last.who, "X">>].balance.amount > 0
  /\ has_row(stakestats, <<"X", last.who>>)
  /\ stakestats[<<"X", last.who>>].staked_balance.amount = 0
  /\ \E o \in Accounts :
       has_row(stakestats, <<"X", o>>) /\ stakestats[<<"X", o>>].staked_balance.amount > 0


(***************************************************************************)
(* C5  Time gate: in every reachable state, for every pending request of   *)
(* (owner, symbol), a refund called by the owner now fails with every      *)
(* table unchanged when now < refund_time; when now >= refund_time it      *)
(* succeeds, takes the request's amount off the account's staked_balance,  *)
(* off the stake_stats row and off the stake_total row, leaves the         *)
(* account's balance as it is and deletes the request, and a refund        *)
(* repeated at once fails.                                                 *)
(***************************************************************************)
C5_TimeGate ==
  \A k \in DOMAIN unstakestats :
    LET c == k[1]
        owner == k[2]
        ka == <<owner, c>>
        req == unstakestats[k]
        r == refund(DB, owner, owner, c, now)
    IN IF now < req.refund_time
         THEN ~r.ok /\ r.db = DB
         ELSE /\ r.ok
              /\ r.db.accounts[ka].staked_balance.amount
                   = accounts[ka].staked_balance.amount - req.amount.amount
              /\ r.db.accounts[ka].balance = accounts[ka].balance
              /\ r.db.stakestats[k].staked_balance.amount
                   = stakestats[k].staked_balance.amount - req.amount.amount
              /\ r.db.totalstake[c].staked_balance_total.amount
                   = totalstake[c].staked_balance_total.amount - req.amount.amount
              /\ ~has_row(r.db.unstakestats, k)
              /\ ~refund(r.db, owner, owner, c, now).ok

\* a refund has just succeeded, after the clock has advanced, and released
\* part of the owner's stake
C5_Witness ==
  /\ last.op = "refund"
  /\ now >= 1
  /\ last.amount >= 1
  /\ ~has_row(unstakestats, <<"X", last.who>>)
  /\ accounts[<<last.who, "X">>].staked_balance.amount >= 1

(***************************************************************************)
(* C6  Single-flight unstake: in every reachable state, for every pending  *)
(* request of (owner, symbol), every unstake called for that owner and     *)
(* symbol, whatever its quantity, fails and leaves every table, the        *)
(* pending request included, unchanged.                                    *)
(***************************************************************************)
C6_SingleFlight ==
  \A k \in DOMAIN unstakestats :
    \A i \in StakeInputs :
      (i.owner = k[2] /\ i.quantity.symbol.code = k[1]) =>
        LET r == unstake(DB, i.auth, i.owner, i.quantity, now)
        IN ~r.ok /\ r.db = DB /\ r.db.unstakestats[k] = unstakestats[k]

\* an unstake has just created a request for less than the owner has staked:
\* a second unstake of the rest passes every other check
C6_Witness ==
  /\ last.op = "unstake"
  /\ has_row(unstakestats, <<"X", last.who>>)
  /\ unstakestats[<<"X", last.who>>].amount.amount
       < accounts[<<last.who, "X">>].staked_balance.amount

(***************************************************************************)
(* C7  Debit headroom: in every reachable state, a transfer by from, or a  *)
(* retire by the issuer, of quantity q succeeds only if the debited        *)
(* account exists and q <= balance - staked_balance; a call that fails     *)
(* leaves every table, the supply included, unchanged.                     *)
(***************************************************************************)
Headroom(d, ka) ==
  d.accounts[ka].balance.amount - d.accounts[ka].staked_balance.amount

C7_DebitHeadroom ==
  /\ \A i \in TransferInputs :
       LET r == transfer(DB, i.auth, i.from, i.to, i.quantity, i.memo)
           ka == <<i.from, i.quantity.symbol.code>>
       IN /\ r.ok => has_row(accounts, ka) /\ i.quantity.amount <= Headroom(DB, ka)
          /\ ~r.ok => r.db = DB
  /\ \A i \in RetireInputs :
       LET r == retire(DB, i.auth, i.quantity, i.memo)
           c == i.quantity.symbol.code
       IN /\ r.ok => /\ has_row(accounts, <<stat[c].issuer, c>>)
                     /\ i.quantity.amount <= Headroom(DB, <<stat[c].issuer, c>>)
          /\ ~r.ok => r.db = DB /\ r.db.stat = stat

\* after a transfer, an owner has part of the balance staked: the transfer
\* of the whole balance fails, the transfer of the headroom succeeds
C7_Witness ==
  /\ last.op = "transfer"
  /\ \E o \in Accounts, t \in Accounts :
       /\ o # t
       /\ has_row(accounts, <<o, "X">>)
       /\ accounts[<<o, "X">>].staked_balance.amount >= 1
       /\ Headroom(DB, <<o, "X">>) >= 1
       /\ ~transfer(DB, o, o, t, accounts[<<o, "X">>].balance, ShortMemo).ok
       /\ transfer(DB, o, o, t, asset(Headroom(DB, <<o, "X">>), TokenSymbol), ShortMemo).ok

(***************************************************************************)
(* C8  issue(to, quantity, memo), when it succeeds, adds quantity to the   *)
(* supply and to the balance of the account to (creating to's row with     *)
(* staked_balance 0 if it had none), also when to is not the issuer.       *)
(***************************************************************************)
C8_IssueCreditsTo ==
  \A i \in IssueInputs :
    LET r == issue(DB, i.auth, i.to, i.quantity, i.memo)
        c == i.quantity.symbol.code
        k == <<i.to, c>>
    IN r.ok =>
         /\ r.db.stat[c].supply.amount = stat[c].supply.amount + i.quantity.amount
         /\ has_row(r.db.accounts, k)
         /\ r.db.accounts[k].balance.amount
              = (IF has_row(accounts, k) THEN accounts[k].balance.amount ELSE 0)
                + i.quantity.amount
         /\ ~has_row(accounts, k) => r.db.accounts[k].staked_balance.amount = 0

(***************************************************************************)
(* C9  Refund delay is a minimum wait: a refund of a request succeeds only *)
(* at a time now >= request_time + D, where D is the asset's refund_delay  *)
(* when unstake created the request.  Stated of the states in which the    *)
(* unstake is the action committed last (only the clock has moved since):  *)
(* there the asset's refund_delay is still the one the request was created *)
(* with.                                                                   *)
(***************************************************************************)
C9_MinimumWait ==
  last.op = "unstake" =>
    LET k == <<"X", last.who>>
        D == stat["X"].refund_delay
    IN /\ has_row(unstakestats, k)
       /\ refund(DB, last.who, last.who, "X", now).ok
            => now >= unstakestats[k].request_time + D

(***************************************************************************)
(* C10  stake(owner, quantity), signed by the owner, with a positive       *)
(* quantity of the token's symbol, succeeds exactly when the owner's       *)
(* account row exists and balance >= staked_balance + quantity; on success *)
(* it adds quantity to the account's staked_balance, to the owner's        *)
(* stake_stats row (created with quantity if absent) and to the stake_total*)
(* row, and leaves balance, supply and every request unchanged; without an *)
(* account row it fails with no table changed.                             *)
(***************************************************************************)
C10_Stake ==
  \A owner \in Accounts, a \in Amounts :
    LET q == asset(a, TokenSymbol)
        c == q.symbol.code
        ka == <<owner, c>>
        ks == <<c, owner>>
        r == stake(DB, owner, owner, q)
    IN /\ r.ok <=> (/\ has_row(accounts, ka)
                    /\ accounts[ka].balance.amount
                         >= accounts[ka].staked_balance.amount + a)
       /\ r.ok =>
            /\ r.db.accounts[ka].staked_balance.amount
                 = accounts[ka].staked_balance.amount + a
            /\ r.db.accounts[ka].balance = accounts[ka].balance
            /\ r.db.stakestats[ks].staked_balance.amount
                 = (IF has_row(stakestats, ks)
                      THEN stakestats[ks].staked_balance.amount ELSE 0) + a
            /\ r.db.totalstake[c].staked_balance_total.amount
                 = totalstake[c].staked_balance_total.amount + a
            /\ r.db.stat = stat
            /\ r.db.unstakestats = unstakestats
       /\ ~has_row(accounts, ka) => ~r.ok /\ r.db = DB

\* a stake has just added to a stake_stats row that existed with a stake
C10_Witness ==
  /\ last.op = "stake"
  /\ has_row(stakestats, <<"X", last.who>>)
  /\ stakestats[<<"X", last.who>>].staked_balance.amount > last.amount
  /\ last.amount >= 1

(***************************************************************************)
(* C11  A successful unstake writes the owner's unstake_stats row and      *)
(* nothing else: the account's balance and staked_balance, the stake_stats *)
(* rows, the stake_total row and the supply are as before, so the owner's  *)
(* headroom is as before and a transfer of more than the headroom still    *)
(* fails while the request is pending.                                     *)
(***************************************************************************)
C11_UnstakeMovesNothing ==
  \A i \in StakeInputs :
    LET c == i.quantity.symbol.code
        ka == <<i.owner, c>>
        ku == <<c, i.owner>>
    IN \A r \in {unstake(DB, i.auth, i.owner, i.quantity, now)} :
       r.ok =>
         /\ r.db.stat = stat
         /\ r.db.accounts = accounts
         /\ r.db.stakestats = stakestats
         /\ r.db.totalstake = totalstake
         /\ DOMAIN r.db.unstakestats = DOMAIN unstakestats \cup {ku}
         /\ \A k \in DOMAIN unstakestats : r.db.unstakestats[k] = unstakestats[k]
         /\ r.db.unstakestats[ku].amount = i.quantity
         /\ Headroom(r.db, ka) = Headroom(DB, ka)
         /\ \A to \in Accounts \ {i.owner} :
              ~transfer(r.db, i.owner, i.owner, to,
                        asset(Headroom(DB, ka) + 1, TokenSymbol), ShortMemo).ok

\* an unstake has been committed at the present time for an owner whose
\* whole balance is staked, and the request is for the whole stake
C11_Witness ==
  \E o \in Accounts :
    /\ has_row(unstakestats, <<"X", o>>)
    /\ unstakestats[<<"X", o>>].request_time = now
    /\ unstakestats[<<"X", o>>].amount = accounts[<<o, "X">>].staked_balance
    /\ accounts[<<o, "X">>].balance = accounts[<<o, "X">>].staked_balance

(***************************************************************************)
(* C12  cancelrefund(owner, symbol) succeeds exactly when it is signed by  *)
(* the owner and the owner has a pending request for the symbol, whether   *)
(* or not the request's refund_time has come; it then erases exactly that  *)
(* request and changes nothing else (the stake stays locked, no balance    *)
(* and no other request changes); otherwise it fails with no table         *)
(* changed.                                                                *)
(***************************************************************************)
C12_CancelRefund ==
  \A i \in RefundInputs :
    LET ku == <<i.symbol, i.owner>>
    IN \A r \in {cancelrefund(DB, i.auth, i.owner, i.symbol)} :
       /\ r.ok <=> (i.auth = i.owner /\ has_row(unstakestats, ku))
       /\ r.ok => r.db = [DB EXCEPT !.unstakestats = erase(@, ku)]
       /\ r.ok => /\ ~has_row(r.db.unstakestats, ku)
                  /\ DOMAIN r.db.unstakestats = DOMAIN unstakestats \ {ku}
       /\ ~r.ok => r.db = DB

\* both owners have a pending request; one, whose refund_time has not come,
\* is cancelled: the call succeeds, the other owner's request stays
C12_Witness ==
  \E o \in Accounts, p \in Accounts :
    /\ o # p
    /\ has_row(unstakestats, <<"X", o>>)
    /\ has_row(unstakestats, <<"X", p>>)
    /\ now < unstakestats[<<"X", o>>].refund_time
    /\ cancelrefund(DB, o, o, "X").ok
    /\ DOMAIN cancelrefund(DB, o, o, "X").db.unstakestats = {<<"X", p>>}

(***************************************************************************)
(* C13  From every state where an owner's request for an amount a is       *)
(* pending, cancelrefund(owner, symbol) followed by unstake(owner, a) at   *)
(* the same or a later time t succeeds, and the tables are then those from *)
(* before the cancelrefund except that the request's request_time is t and *)
(* its refund_time is t plus the token's current refund_delay.             *)
(***************************************************************************)
C13_CancelThenUnstake ==
  \A k \in DOMAIN unstakestats :
    \A t \in now .. MaxTime :
      LET c == k[1]
          owner == k[2]
          r1 == cancelrefund(DB, owner, owner, c)
          r2 == unstake(r1.db, owner, owner, unstakestats[k].amount, t)
      IN /\ r1.ok
         /\ r2.ok
         /\ r2.db = [DB EXCEPT !.unstakestats[k] =
                       [@ EXCEPT !.request_time = t,
                                 !.refund_time = t + stat[c].refund_delay]]

(***************************************************************************)
(* C14  A successful setdelay changes only the refund_delay of the token's *)
(* stat row, and a successful settransfee only its fee_ratio and           *)
(* fee_receiver: every pending request keeps its request_time, refund_time *)
(* and amount, so a refund of a request made before the setdelay is gated  *)
(* by the refund_time stored at its unstake; no balance, stake or supply   *)
(* changes.                                                                *)
(***************************************************************************)
C14_SettingsOnly ==
  /\ \A i \in SetDelayInputs :
       LET c == i.symbol.code
       IN \A r \in {setdelay(DB, i.auth, i.symbol, i.delaytime)} :
          r.ok =>
            /\ r.db = [DB EXCEPT !.stat[c].refund_delay = i.delaytime]
            /\ r.db.unstakestats = unstakestats
            /\ \A k \in DOMAIN unstakestats :
                 refund(r.db, k[2], k[2], k[1], now).ok
                   <=> unstakestats[k].refund_time <= now
  /\ \A i \in SetTransFeeInputs :
       LET c == i.symbol.code
       IN \A r \in {settransfee(DB, i.auth, i.symbol, i.ratio, i.receiver)} :
          r.ok =>
            r.db = [DB EXCEPT !.stat[c].fee_ratio = i.ratio,
                              !.stat[c].fee_receiver = i.receiver]

\* the refund_delay has been set after a request was made that is still
\* pending (its refund_time is not its request_time plus the delay of now),
\* and the fee ratio has been set
C14_Witness ==
  /\ has_row(stat, "X")
  /\ stat["X"].fee_ratio = MaxFeeRatio
  /\ stat["X"].refund_delay > 0
  /\ \E k \in DOMAIN unstakestats :
       unstakestats[k].refund_time
         # (unstakestats[k].request_time + stat["X"].refund_delay) % Uint64Modulus

C16_Close ==
  \A i \in CloseInputs :
    LET c == i.symbol.code
        ka == <<i.owner, c>>
        ks == <<c, i.owner>>
        Zero == /\ has_row(accounts, ka)
                /\ accounts[ka].balance.amount = 0
                /\ accounts[ka].staked_balance.amount = 0
    IN \A r \in {close(DB, i.auth, i.owner, i.symbol, i.dangling)} :
       /\ r.ok => Zero
       /\ r.ok => r.db = [DB EXCEPT !.accounts = erase(@, ka),
                                    !.stakestats = erase(@, ks)]
       /\ r.ok => ~has_row(r.db.accounts, ka) /\ ~has_row(r.db.stakestats, ks)
       /\ ~Zero => ~r.ok /\ r.db = DB

\* an owner with an account row of balance 0 and stake 0 and a stake_stats
\* row closes: both rows go, and the other owner's rows stay
C16_Witness ==
  \E o \in Accounts, p \in Accounts :
    /\ o # p
    /\ has_row(accounts, <<o, "X">>) /\ has_row(stakestats, <<"X", o>>)
    /\ has_row(accounts, <<p, "X">>) /\ has_row(stakestats, <<"X", p>>)
    /\ close(DB, o, o, TokenSymbol, 0).ok
    /\ DOMAIN close(DB, o, o, TokenSymbol, 0).db.accounts = {<<p, "X">>}
    /\ DOMAIN close(DB, o, o, TokenSymbol, 0).db.stakestats = {<<"X", p>>}

(***************************************************************************)
(* C17  In every reachable state every token's supply is at least 0 and at *)
(* most its max_supply, and its fee_ratio is in 0 .. 100.                  *)
(***************************************************************************)
C17_SupplyBound ==
  \A c \in DOMAIN stat :
    /\ 0 <= stat[c].supply.amount
    /\ stat[c].supply.amount <= stat[c].max_supply.amount
    /\ stat[c].fee_ratio \in 0 .. MaxFeeRatio

\* an issue has just brought the supply of a token with the largest fee
\* ratio up to its max_supply
C17_Witness ==
  /\ last.op = "issue"
  /\ has_row(stat, "X")
  /\ stat["X"].supply.amount = stat["X"].max_supply.amount
  /\ stat["X"].supply.amount > last.amount
  /\ stat["X"].fee_ratio = MaxFeeRatio

(***************************************************************************)
(* C18  Every pending request becomes claimable: as the clock advances     *)
(* there is a time at which the owner's refund succeeds, whatever the      *)
(* other accounts do in between.  Stated on a state: for every pending     *)
(* request there is a value of the clock, now or later, at which           *)
(* refund(owner, symbol) succeeds on the tables as they are.  (No action   *)
(* but the owner's refund and cancelrefund writes a request row, so a      *)
(* request for which no such value exists is never refunded.)              *)
(***************************************************************************)
C18_EventuallyClaimable ==
  \A k \in DOMAIN unstakestats :
    \E t \in now .. Uint32Modulus - 1 :
      refund(DB, k[2], k[2], k[1], t).ok

(***************************************************************************)
(* C19  open is idempotent.  A successful open(owner, symbol, ram_payer)   *)
(* creates the owner's account row with balance 0 and staked_balance 0 if  *)
(* the owner has none, and leaves an account row that exists as it is; the *)
(* stat row (the supply), the stake_total row and the requests are         *)
(* unchanged; the same open applied again succeeds and changes no table,   *)
(* so the tables after two opens are those after one.                      *)
(***************************************************************************)
C19_OpenIdempotent ==
  \A i \in OpenInputs :
    LET ka == <<i.owner, i.symbol.code>>
    IN \A r1 \in {open(DB, i.auth, i.owner, i.symbol, i.ram_payer)} :
       \A r2 \in {open(r1.db, i.auth, i.owner, i.symbol, i.ram_payer)} :
       r1.ok =>
         /\ has_row(r1.db.accounts, ka)
         /\ ~has_row(accounts, ka) =>
              /\ r1.db.accounts[ka].balance = asset(0, i.symbol)
              /\ r1.db.accounts[ka].staked_balance = asset(0, i.symbol)
         /\ \A k \in DOMAIN accounts : r1.db.accounts[k] = accounts[k]
         /\ r1.db.stat = stat
         /\ r1.db.totalstake = totalstake
         /\ r1.db.unstakestats = unstakestats
         /\ r2.ok
         /\ r2.db = r1.db

\* open succeeds for an owner who holds a balance and a stake, and for an
\* owner who has no account row
C19_Witness ==
  \E o \in Accounts, p \in Accounts :
    /\ has_row(accounts, <<o, "X">>)
    /\ accounts[<<o, "X">>].balance.amount > 0
    /\ accounts[<<o, "X">>].staked_balance.amount > 0
    /\ open(DB, o, o, TokenSymbol, o).ok
    /\ ~has_row(accounts, <<p, "X">>)
    /\ open(DB, o, p, TokenSymbol, o).ok

\* the well-formed staking calls an owner signs: the well-formed inputs of
\* Stake, Unstake, Refund and CancelRefund that name the owner
StakingCalls(owner) ==
  {[op |-> o, in |-> i] :
     o \in {"stake", "unstake"},
     i \in {j \in StakeInputs : /\ j.owner = owner /\ j.auth = owner
                                /\ j.quantity.symbol = TokenSymbol
                                /\ j.quantity.amount > 0}}
  \cup {[op |-> o, in |-> i] :
          o \in {"refund", "cancelrefund"},
          i \in {j \in RefundInputs : /\ j.owner = owner /\ j.auth = owner
                                      /\ j.symbol = TokenSymbol.code}}

\* the result of a staking call on the tables d at time t
Run(d, call, t) ==
  CASE call.op = "stake" ->
         stake(d, call.in.auth, call.in.owner, call.in.quantity)
    [] call.op = "unstake" ->
         unstake(d, call.in.auth, call.in.owner, call.in.quantity, t)
    [] call.op = "refund" ->
         refund(d, call.in.auth, call.in.owner, call.in.symbol, t)
    [] call.op = "cancelrefund" ->
         cancelrefund(d, call.in.auth, call.in.owner, call.in.symbol)

\* the rows of the key (owner, c) in the tables d: the account row, the
\* stake_stats row and the request, each if present
RowsOf(d, owner, c) ==
  <<IF has_row(d.accounts, <<owner, c>>) THEN {d.accounts[<<owner, c>>]} ELSE {},
    IF has_row(d.stakestats, <<c, owner>>) THEN {d.stakestats[<<c, owner>>]} ELSE {},
    IF has_row(d.unstakestats, <<c, owner>>) THEN {d.unstakestats[<<c, owner>>]} ELSE {}>>

(***************************************************************************)
(* C20  Two staking calls (stake, unstake, refund, cancelrefund) made for  *)
(* different owners commute: run in either order from the same tables at  *)
(* the same time, each succeeds after the other exactly when it succeeds   *)
(* alone, the final tables are the same in both orders, and each leaves    *)
(* the other owner's account row, stake_stats row and request as they      *)
(* were.                                                                   *)
(***************************************************************************)
C20_KeyIndependence ==
  \A a \in StakingCalls("alice") :
    \A ra \in {Run(DB, a, now)} :
      /\ RowsOf(ra.db, "bob", "X") = RowsOf(DB, "bob", "X")
      /\ \A b \in StakingCalls("bob") :
           \A rb \in {Run(DB, b, now)} :
             \A rab \in {Run(ra.db, b, now)}, rba \in {Run(rb.db, a, now)} :
               /\ rab.ok = rb.ok
               /\ rba.ok = ra.ok
               /\ rab.db = rba.db
               /\ RowsOf(rb.db, "alice", "X") = RowsOf(DB, "alice", "X")

\* one owner can stake and the other owner's request can be refunded, and
\* both calls succeed in either order
C20_Witness ==
  \E o \in Accounts, p \in Accounts :
    /\ o # p
    /\ has_row(unstakestats, <<"X", p>>)
    /\ refund(DB, p, p, "X", now).ok
    /\ stake(DB, o, o, asset(1, TokenSymbol)).ok
    /\ stake(refund(DB, p, p, "X", now).db, o, o, asset(1, TokenSymbol)).ok
    /\ refund(stake(DB, o, o, asset(1, TokenSymbol)).db, p, p, "X", now).ok

(***************************************************************************)
(* C21  Within every call of every action all checks come before the       *)
(* call's first table write: no call fails at a check after it has         *)
(* modified a table.                                                       *)
(***************************************************************************)
C21_ValidateThenWrite ==
  LET Ordered(r) == \A res \in {r} : ~res.ok => ~res.wrote IN
  /\ \A i \in CreateInputs : Ordered(create(DB, i.auth, i.issuer, i.ms))
  /\ \A i \in SetDelayInputs : Ordered(setdelay(DB, i.auth, i.symbol, i.delaytime))
  /\ \A i \in SetTransFeeInputs :
       Ordered(settransfee(DB, i.auth, i.symbol, i.ratio, i.receiver))
  /\ \A i \in IssueInputs : Ordered(issue(DB, i.auth, i.to, i.quantity, i.memo))
  /\ \A i \in RetireInputs : Ordered(retire(DB, i.auth, i.quantity, i.memo))
  /\ \A i \in TransferInputs :
       Ordered(transfer(DB, i.auth, i.from, i.to, i.quantity, i.memo))
  /\ \A i \in StakeInputs :
       /\ Ordered(stake(DB, i.auth, i.owner, i.quantity))
       /\ Ordered(unstake(DB, i.auth, i.owner, i.quantity, now))
  /\ \A i \in RefundInputs :
       /\ Ordered(refund(DB, i.auth, i.owner, i.symbol, now))
       /\ Ordered(cancelrefund(DB, i.auth, i.owner, i.symbol))
  /\ \A i \in OpenInputs : Ordered(open(DB, i.auth, i.owner, i.symbol, i.ram_payer))
  /\ \A i \in CloseInputs : Ordered(close(DB, i.auth, i.owner, i.symbol, i.dangling))

(***************************************************************************)
(* C22  Every pending request is covered: its amount is positive, its      *)
(* owner has an account row whose staked_balance is at least the amount,   *)
(* and a stake row.  So no refund leaves the account's staked_balance, the *)
(* stake row or the symbol's total negative, and close never succeeds for  *)
(* an owner with a pending request.                                        *)
(***************************************************************************)
C22_PendingCovered ==
  /\ \A k \in DOMAIN unstakestats :
       LET ka == <<k[2], k[1]>>
           quantity == unstakestats[k].amount
       IN /\ quantity.amount > 0
          /\ has_row(accounts, ka)
          /\ accounts[ka].staked_balance.amount >= quantity.amount
          /\ has_row(stakestats, k)
  /\ \A i \in RefundInputs :
       \A r \in {refund(DB, i.auth, i.owner, i.symbol, now)} :
         r.ok =>
           /\ \A ka \in DOMAIN r.db.accounts : r.db.accounts[ka].staked_balance.amount >= 0
           /\ \A ks \in DOMAIN r.db.stakestats : r.db.stakestats[ks].staked_balance.amount >= 0
           /\ \A c \in DOMAIN r.db.totalstake :
                r.db.totalstake[c].staked_balance_total.amount >= 0
  /\ \A i \in CloseInputs :
       has_row(unstakestats, <<i.symbol.code, i.owner>>)
         => ~close(DB, i.auth, i.owner, i.symbol, i.dangling).ok

\* a request is pending whose refund succeeds now, and its owner's close fails
C22_Witness ==
  \E k \in DOMAIN unstakestats :
    /\ refund(DB, k[2], k[2], k[1], now).ok
    /\ ~close(DB, k[2], k[2], TokenSymbol, 0).ok

====
